---- MODULE Spec2Model ----
(***************************************************************************)
(* Model of healthchat's AudioAgent (backend/healthchat/agents/            *)
(* audio_agent.py): five asyncio tasks started by AudioAgent.run, joined   *)
(* by four unbounded asyncio.Queue objects, writing to one websocket.      *)
(*                                                                         *)
(* Granularity.  The tasks run on one event loop, so a task is only        *)
(* interleaved with the others where it really awaits: websocket.receive,  *)
(* websocket.send_json / send_bytes, Queue.get and run_in_executor.        *)
(* Queue.put on an unbounded queue never suspends, and the three OpenAI    *)
(* helpers are synchronous calls.  Each action below is the code between   *)
(* two such points.                                                        *)
(*                                                                         *)
(* Data.  bytes and str values are sequences of one-character strings;     *)
(* b''.join and "".join are Join, str.strip is Strip.  A queue item is a   *)
(* record [tag, val]: tag "None" is Python's None, "bytes" a bytes object, *)
(* "str" a str and "BytesIO" an io.BytesIO holding val.                    *)
(***************************************************************************)
EXTENDS Integers, Sequences, FiniteSets, TLC

\* ------------------------------------------------------------------ bounds

\* Frames that reach audio_input_queue before the client disconnects (or the
\* receive fails).
MaxFrames == 4

\* ------------------------------------------------------------------ values

None == [tag |-> "None", val |-> <<>>]
Bytes(b) == [tag |-> "bytes", val |-> b]
Str(s) == [tag |-> "str", val |-> s]
BytesIO(b) == [tag |-> "BytesIO", val |-> b]

LLM_SYSTEM_PROMPT == <<"N", "u", "r", "s", "e">>
AUDIO_END == Bytes(<<"-", "-", "A", "U", "D", "I", "O", "_", "E", "N", "D", "-", "-">>)
end_punc == {".", "!", "?"}
Whitespace == {" "}

\* Binary payloads the client's next frame can carry when k audio frames have
\* reached the queue: b'', or audio that differs from every earlier frame's.
Letters == <<"a", "b", "c", "d", "e", "f", "g", "h">>
Payload(k) ==
    IF k % 2 = 0 THEN <<Letters[(k % 8) + 1]>>
    ELSE <<Letters[(k % 8) + 1], Letters[((k + 1) % 8) + 1]>>
ClientBytes(k) == {<<>>, Payload(k)}
\* Text payloads a client frame can carry.
ClientTexts == {<<"EndOfStream">>, <<"ping">>}
\* What _openai_stt returns on its k-th call: a text (no two calls the same
\* one), an empty text, or None when the service raises.
SttAnswers(k) == {Str(<<"t", Letters[(k % 8) + 1]>>), Str(<<>>), None}
\* The delta.content values (None as <<>>) the chat-completion stream of the
\* k-th turn delivers if nothing stops it; it can raise after any of them.
LlmStreams(k) ==
    IF k = 1 THEN { << <<"b", "?">>, <<>>, <<" ", "a">>, <<"!">>, <<".">> >> }
    ELSE { << <<"c">>, <<"?">> >> }
\* Byte chunks the speech stream can deliver for one sentence; a stream
\* that raises at once delivers none.
TtsStreams == {<<>>, <<<<"p">>, <<"q", "r">>>>}

Tasks == {"recv", "stt", "llm", "tts", "send"}
Stages == {"stt", "llm", "tts", "send"}

\* ------------------------------------------------------------------ helpers

RECURSIVE Join(_)
\* b''.join(parts) / "".join(parts)
Join(parts) == IF parts = <<>> THEN <<>> ELSE Head(parts) \o Join(Tail(parts))

RECURSIVE LStrip(_)
LStrip(s) == IF s # <<>> /\ Head(s) \in Whitespace THEN LStrip(Tail(s)) ELSE s

RECURSIVE RStrip(_)
RStrip(s) ==
    IF s # <<>> /\ s[Len(s)] \in Whitespace THEN RStrip(SubSeq(s, 1, Len(s) - 1)) ELSE s

\* str.strip()
Strip(s) == RStrip(LStrip(s))

\* Python truthiness of a str | None value.
Truthy(v) == v.tag # "None" /\ v.val # <<>>

Message(role, content) == [role |-> role, content |-> content]

\* Appended as an insert at the front of the list.
Prepended(history, message) == <<message>> \o history

\* `self.conversation_history.append(message)`
Appended(history, message) == Append(history, message)

\* Outbound websocket traffic: send_json({"type": t, "message": m, "data": d})
\* and send_bytes(d) (type "bytes").
Event(type, message, data) == [type |-> type, message |-> message, data |-> data]
Status(message) == Event("status", message, <<>>)

\* ------------------------------------------------------------------ state

VARIABLES
    connected,             \* the receive loop has seen neither a disconnect nor an error
    sent,                  \* what each task has sent on the websocket, in its order
    audio_input_queue,
    transcript_queue,
    llm_response_queue,
    tts_audio_queue,
    conversation_history,
    pc,                    \* where each of the five tasks is
    run_state,             \* AudioAgent.run: "gather" or "returned"
    stt,                   \* locals of _process_stt
    llm,                   \* locals of _process_llm
    tts,                   \* locals of _process_tts
    ingested,              \* history: what ingest put on audio_input_queue, tagged
    stt_calls,             \* history: each _openai_stt call, its audio and its answer
    llm_turns,             \* history: each transcript taken by _process_llm
    synth_log              \* history: each sentence taken through _generate_tts_audio

vars == <<connected, sent, audio_input_queue, transcript_queue, llm_response_queue,
          tts_audio_queue, conversation_history, pc, run_state, stt, llm, tts,
          ingested, stt_calls, llm_turns, synth_log>>

queues == <<audio_input_queue, transcript_queue, llm_response_queue, tts_audio_queue>>
histories == <<ingested, stt_calls, llm_turns, synth_log>>

SttIdle == [audio_chunks |-> <<>>, full_audio_stream |-> <<>>, transcript |-> None]
LlmIdle == [full_response |-> <<>>, last_sentence |-> <<>>, chunk |-> <<>>, stream |-> <<>>]
TtsIdle == [full_response |-> <<>>]

Init ==
    /\ connected = TRUE
    /\ sent = [t \in Tasks |-> <<>>]
    /\ audio_input_queue = <<>>
    /\ transcript_queue = <<>>
    /\ llm_response_queue = <<>>
    /\ tts_audio_queue = <<>>
    /\ conversation_history = <<Message("system", LLM_SYSTEM_PROMPT)>>
    /\ pc = [recv |-> "receive", stt |-> "get_first", llm |-> "get",
             tts |-> "get", send |-> "get"]
    /\ run_state = "gather"
    /\ stt = SttIdle
    /\ llm = LlmIdle
    /\ tts = TtsIdle
    /\ ingested = <<>>
    /\ stt_calls = <<>>
    /\ llm_turns = <<>>
    /\ synth_log = <<>>

\* ------------------------------------------------------------------ websocket

\* await websocket.send_json(...) / send_bytes(...) by `task`, which goes on
\* at `next` when the call returns.  Once the receive loop has seen the
\* client go (or has failed) the call either returns or raises, depending on
\* the server stack and on what went wrong; raising ends the task.
Send(task, event, next) ==
    \/ /\ sent' = [sent EXCEPT ![task] = Append(@, event)]
       /\ pc' = [pc EXCEPT ![task] = next]
    \/ /\ ~connected
       /\ sent' = sent
       /\ pc' = [pc EXCEPT ![task] = "crashed"]

Raised(task) == pc'[task] = "crashed"

\* ------------------------------------------------------------------ ingest

\* What `await self.websocket.receive()` can do: return a message, or raise.
ReceiveMessages ==
    {[type |-> "websocket.receive", bytes |-> Bytes(b), text |-> None] :
            b \in ClientBytes(Cardinality({i \in DOMAIN ingested : ingested[i].kind = "audio"}))}
        \cup {[type |-> "websocket.receive", bytes |-> None, text |-> Str(t)] : t \in ClientTexts}
        \cup {[type |-> "websocket.disconnect", bytes |-> None, text |-> None]}
ReceiveRaises == {"WebSocketDisconnect", "Exception"}

Frame(kind, data) == [kind |-> kind, data |-> data]

\* Cleanup with the put on tts_audio_queue left out.
CleanupWithoutAudioQueue ==
    /\ audio_input_queue' = Append(audio_input_queue, None)
    /\ transcript_queue' = Append(transcript_queue, None)
    /\ llm_response_queue' = Append(llm_response_queue, None)
    /\ tts_audio_queue' = tts_audio_queue
    /\ ingested' = Append(ingested, Frame("SessionEnd", <<>>))

\* The finally block of _receive_from_client.
Cleanup ==
    /\ audio_input_queue' = Append(audio_input_queue, None)
    /\ transcript_queue' = Append(transcript_queue, None)
    /\ llm_response_queue' = Append(llm_response_queue, None)
    /\ tts_audio_queue' = Append(tts_audio_queue, None)
    /\ ingested' = Append(ingested, Frame("SessionEnd", <<>>))

\* One pass of the while loop for a message that is no disconnect.
IngestMessage(message) ==
    /\ Len(ingested) < MaxFrames
    /\ IF Truthy(message.bytes)
         THEN /\ audio_input_queue' = Append(audio_input_queue, message.bytes)
              /\ ingested' = Append(ingested, Frame("audio", message.bytes.val))
         ELSE IF Truthy(message.text) /\ message.text = Str(<<"EndOfStream">>)
         THEN /\ audio_input_queue' = Append(audio_input_queue, None)
              /\ ingested' = Append(ingested, Frame("EndOfStream", <<>>))
         ELSE UNCHANGED <<audio_input_queue, ingested>>
    /\ UNCHANGED <<connected, pc, transcript_queue, llm_response_queue, tts_audio_queue>>

\* The loop is left: by break on a disconnect message, by WebSocketDisconnect
\* (caught), or by another exception, which leaves the task after the finally
\* block.
IngestExit(how) ==
    /\ Cleanup
    /\ pc' = [pc EXCEPT !["recv"] = IF how = "Exception" THEN "crashed" ELSE "done"]
    /\ connected' = FALSE

ReceiveFromClient ==
    /\ pc["recv"] = "receive"
    /\ \/ \E message \in ReceiveMessages :
            IF message.type = "websocket.disconnect"
                THEN IngestExit("disconnect")
                ELSE IngestMessage(message)
       \/ \E how \in ReceiveRaises : IngestExit(how)
    /\ UNCHANGED <<sent, conversation_history, run_state, stt, llm, tts,
                   stt_calls, llm_turns, synth_log>>

\* ------------------------------------------------------------------ transcription

\* `if first_chunk is None: break`
EndsStage(first_chunk) == first_chunk = None

\* FirstChunks as `audio_chunks = []`.
FirstChunksEmpty(first_chunk) == <<>>

\* `audio_chunks = [first_chunk]`
FirstChunks(first_chunk) == <<first_chunk.val>>

\* TranscriptOk as `if transcript is not None:`.
TranscriptNotNone(transcript) == transcript # None

\* `if transcript:`
TranscriptOk(transcript) == Truthy(transcript)

SttGetFirst ==
    /\ pc["stt"] = "get_first"
    /\ audio_input_queue # <<>>
    /\ LET first_chunk == Head(audio_input_queue) IN
        /\ audio_input_queue' = Tail(audio_input_queue)
        /\ IF EndsStage(first_chunk)
             THEN /\ pc' = [pc EXCEPT !["stt"] = "done"]
                  /\ stt' = SttIdle
             ELSE /\ pc' = [pc EXCEPT !["stt"] = "get_chunk"]
                  /\ stt' = [SttIdle EXCEPT !.audio_chunks = FirstChunks(first_chunk)]
    /\ UNCHANGED <<connected, sent, transcript_queue, llm_response_queue, tts_audio_queue,
                   conversation_history, run_state, llm, tts, histories>>

\* The inner loop; on None: join, `continue` on an empty buffer, else the
\* "Transcribing..." status.
SttGetChunk ==
    /\ pc["stt"] = "get_chunk"
    /\ audio_input_queue # <<>>
    /\ LET chunk == Head(audio_input_queue)
           full_audio_stream == Join(stt.audio_chunks)
       IN
        /\ audio_input_queue' = Tail(audio_input_queue)
        /\ IF chunk # None
             THEN /\ stt' = [stt EXCEPT !.audio_chunks = Append(@, chunk.val)]
                  /\ UNCHANGED <<pc, sent>>
             ELSE IF full_audio_stream = <<>>
             THEN /\ stt' = SttIdle
                  /\ pc' = [pc EXCEPT !["stt"] = "get_first"]
                  /\ UNCHANGED sent
             ELSE /\ Send("stt", Status("Transcribing..."), "transcribe")
                  /\ stt' = IF Raised("stt") THEN SttIdle
                            ELSE [SttIdle EXCEPT !.full_audio_stream = full_audio_stream]
    /\ UNCHANGED <<connected, transcript_queue, llm_response_queue, tts_audio_queue,
                   conversation_history, run_state, llm, tts, histories>>

\* SttTranscribe with the call made again, on the same buffer, when it failed.
SttTranscribeWithRetry ==
    /\ pc["stt"] = "transcribe"
    /\ \E transcript \in SttAnswers(Len(stt_calls)) :
        /\ stt_calls' = Append(stt_calls,
                               [audio |-> stt.full_audio_stream, transcript |-> transcript])
        /\ IF TranscriptOk(transcript)
             THEN /\ Send("stt", Event("transcript", "", transcript.val), "put_transcript")
                  /\ stt' = IF Raised("stt") THEN SttIdle
                            ELSE [SttIdle EXCEPT !.transcript = transcript]
             ELSE /\ Send("stt", Status("Transcription failed."), "transcribe")
                  /\ stt' = IF Raised("stt") THEN SttIdle ELSE stt
    /\ UNCHANGED <<connected, queues, conversation_history, run_state, llm, tts,
                   ingested, llm_turns, synth_log>>

\* _openai_stt on the buffer, then the transcript event or the failure status.
SttTranscribe ==
    /\ pc["stt"] = "transcribe"
    /\ \E transcript \in SttAnswers(Len(stt_calls)) :
        /\ stt_calls' = Append(stt_calls,
                               [audio |-> stt.full_audio_stream, transcript |-> transcript])
        /\ IF TranscriptOk(transcript)
             THEN /\ Send("stt", Event("transcript", "", transcript.val), "put_transcript")
                  /\ stt' = IF Raised("stt") THEN SttIdle
                            ELSE [SttIdle EXCEPT !.transcript = transcript]
             ELSE /\ Send("stt", Status("Transcription failed."), "get_first")
                  /\ stt' = SttIdle
    /\ UNCHANGED <<connected, queues, conversation_history, run_state, llm, tts,
                   ingested, llm_turns, synth_log>>

\* SttPutTranscript with the Transcription Stage, and not the Generation
\* Stage, recording the user message.
SttPutTranscriptAndRecord ==
    /\ pc["stt"] = "put_transcript"
    /\ transcript_queue' = Append(transcript_queue, stt.transcript)
    /\ conversation_history' =
            Appended(conversation_history, Message("user", stt.transcript.val))
    /\ stt' = SttIdle
    /\ pc' = [pc EXCEPT !["stt"] = "get_first"]
    /\ UNCHANGED <<connected, sent, audio_input_queue, llm_response_queue, tts_audio_queue,
                   run_state, llm, tts, histories>>

\* SttPutTranscript with the transcript put at the head of the queue.
SttPutTranscriptFirst ==
    /\ pc["stt"] = "put_transcript"
    /\ transcript_queue' = <<stt.transcript>> \o transcript_queue
    /\ stt' = SttIdle
    /\ pc' = [pc EXCEPT !["stt"] = "get_first"]
    /\ UNCHANGED <<connected, sent, audio_input_queue, llm_response_queue, tts_audio_queue,
                   conversation_history, run_state, llm, tts, histories>>

SttPutTranscript ==
    /\ pc["stt"] = "put_transcript"
    /\ transcript_queue' = Append(transcript_queue, stt.transcript)
    /\ stt' = SttIdle
    /\ pc' = [pc EXCEPT !["stt"] = "get_first"]
    /\ UNCHANGED <<connected, sent, audio_input_queue, llm_response_queue, tts_audio_queue,
                   conversation_history, run_state, llm, tts, histories>>

ProcessStt == SttGetFirst \/ SttGetChunk \/ SttTranscribe \/ SttPutTranscript

\* ------------------------------------------------------------------ generation

\* ClosesSentence as `if chunk[-1] in end_punc:`.
EndsWithPunctuation(chunk) == chunk[Len(chunk)] \in end_punc

\* `if len(chunk) == 1 and chunk in end_punc:`
ClosesSentence(chunk) == Len(chunk) = 1 /\ chunk[1] \in end_punc

\* `if content:` in _openai_converse_stream
Yielded(content) == content # <<>>

\* HasResponse as a test that never passes.
NeverHasResponse(full_response) == FALSE

\* HasResponse with the test left out.
AlwaysHasResponse(full_response) == TRUE

\* `if full_response:` after the stream
HasResponse(full_response) == full_response # <<>>

\* state "exhausted": the for loop over the generator has ended; failed: it
\* ended because the stream raised with deltas still to come.
Turn(transcript) ==
    [transcript |-> transcript, chunks |-> <<>>, pushed |-> <<>>, state |-> "streaming",
     failed |-> FALSE]

\* llm_turns with its last entry changed.
LastTurn(field, value) == [llm_turns EXCEPT ![Len(llm_turns)][field] = value]
EndTurn(state) == LastTurn("state", state)

LlmGet ==
    /\ pc["llm"] = "get"
    /\ transcript_queue # <<>>
    /\ LET transcript == Head(transcript_queue) IN
        /\ transcript_queue' = Tail(transcript_queue)
        /\ IF transcript = None
             THEN /\ pc' = [pc EXCEPT !["llm"] = "done"]
                  /\ UNCHANGED <<sent, conversation_history, llm_turns>>
             ELSE /\ conversation_history' =
                        Appended(conversation_history, Message("user", transcript.val))
                  /\ Send("llm", Status("Thinking..."), "start")
                  /\ llm_turns' = Append(llm_turns,
                        [Turn(transcript.val) EXCEPT
                            !.state = IF Raised("llm") THEN "aborted" ELSE "streaming"])
    /\ llm' = LlmIdle
    /\ UNCHANGED <<connected, audio_input_queue, llm_response_queue, tts_audio_queue,
                   run_state, stt, tts, ingested, stt_calls, synth_log>>

\* The llm_response_start event; what the service is going to stream for
\* this history is its own business.
LlmStart ==
    /\ pc["llm"] = "start"
    /\ Send("llm", Event("llm_response_start", "", <<>>), "pull")
    /\ \E stream \in LlmStreams(Len(llm_turns)) :
            llm' = IF Raised("llm") THEN LlmIdle ELSE [LlmIdle EXCEPT !.stream = stream]
    /\ llm_turns' = IF Raised("llm") THEN EndTurn("aborted") ELSE llm_turns
    /\ UNCHANGED <<connected, queues, conversation_history, run_state, stt, tts,
                   ingested, stt_calls, synth_log>>

RECURSIVE Skip(_)
\* _openai_converse_stream: the deltas left once those it does not yield are
\* passed over.
Skip(stream) ==
    IF stream # <<>> /\ ~Yielded(Head(stream)) THEN Skip(Tail(stream)) ELSE stream

\* What the loop body does after the llm_chunk event of llm.chunk, before the
\* stream is asked for more: the sentence boundary test and the put.
\* SentenceClosed as a test of the chunk whose llm_chunk event is still to be
\* sent.
SentenceClosedAhead == Skip(llm.stream) # <<>> /\ ClosesSentence(Head(Skip(llm.stream)))

SentenceClosed == llm.chunk # <<>> /\ ClosesSentence(llm.chunk)
AfterChunk(yielded) ==
    /\ llm_response_queue' =
            IF SentenceClosed THEN Append(llm_response_queue, Str(Join(llm.last_sentence)))
            ELSE llm_response_queue
    /\ llm_turns' =
            [llm_turns EXCEPT ![Len(llm_turns)] =
                [@ EXCEPT !.pushed = IF SentenceClosed THEN Append(@, Join(llm.last_sentence))
                                     ELSE @,
                          !.chunks = @ \o yielded,
                          !.state = IF yielded = <<>> THEN "exhausted"
                                    ELSE IF Raised("llm") THEN "aborted" ELSE @,
                          !.failed = IF yielded = <<>> THEN Skip(llm.stream) # <<>> ELSE @]]
last_sentence == IF SentenceClosed THEN <<>> ELSE llm.last_sentence

\* _openai_converse_stream yields the next chunk, and the loop body runs up
\* to the llm_chunk event.
LlmPull ==
    /\ pc["llm"] = "pull"
    /\ Skip(llm.stream) # <<>>
    /\ LET chunk == Head(Skip(llm.stream)) IN
        /\ Send("llm", Event("llm_chunk", "", chunk), "pull")
        /\ llm' = IF Raised("llm") THEN LlmIdle
                  ELSE [full_response |-> Append(llm.full_response, chunk),
                        last_sentence |-> Append(last_sentence, chunk),
                        chunk |-> chunk,
                        stream |-> Tail(Skip(llm.stream))]
        /\ AfterChunk(<<chunk>>)
    /\ UNCHANGED <<connected, audio_input_queue, transcript_queue, tts_audio_queue,
                   conversation_history, run_state, stt, tts, ingested, stt_calls,
                   synth_log>>

\* The stream is exhausted, or raised (caught in _openai_converse_stream).
LlmStreamEnd ==
    /\ pc["llm"] = "pull"
    /\ IF HasResponse(llm.full_response)
         THEN /\ conversation_history' = Appended(conversation_history,
                    Message("assistant", Join(llm.full_response)))
              /\ pc' = [pc EXCEPT !["llm"] = "get"]
              /\ UNCHANGED sent
         ELSE /\ Send("llm", Status("AI failed to respond."), "get")
              /\ UNCHANGED conversation_history
    /\ llm' = LlmIdle
    /\ AfterChunk(<<>>)
    /\ UNCHANGED <<connected, audio_input_queue, transcript_queue, tts_audio_queue,
                   run_state, stt, tts, ingested, stt_calls, synth_log>>

ProcessLlm == LlmGet \/ LlmStart \/ LlmPull \/ LlmStreamEnd

\* ------------------------------------------------------------------ synthesis

\* `sentences = [full_response.strip()]`
Sentence(full_response) == Strip(full_response)

\* AudioFile keeping the last chunk only.
AudioFileLastChunk(sentence_chunks) ==
    BytesIO(IF sentence_chunks = <<>> THEN <<>> ELSE sentence_chunks[Len(sentence_chunks)])

\* `b''.join(sentence_chunks)` wrapped in io.BytesIO
AudioFile(sentence_chunks) == BytesIO(Join(sentence_chunks))

TtsGet ==
    /\ pc["tts"] = "get"
    /\ llm_response_queue # <<>>
    /\ LET full_response == Head(llm_response_queue) IN
        /\ llm_response_queue' = Tail(llm_response_queue)
        /\ IF full_response = None
             THEN /\ pc' = [pc EXCEPT !["tts"] = "done"]
                  /\ tts' = TtsIdle
                  /\ UNCHANGED sent
             ELSE /\ Send("tts", Status("Streaming audio..."), "synth")
                  /\ tts' = IF Raised("tts") THEN TtsIdle
                            ELSE [full_response |-> full_response.val]
    /\ UNCHANGED <<connected, audio_input_queue, transcript_queue, tts_audio_queue,
                   conversation_history, run_state, stt, llm, histories>>

\* The for loop over the one stripped sentence, then the audio-end marker.
TtsSynthesize ==
    /\ pc["tts"] = "synth"
    /\ LET sentence == Sentence(tts.full_response) IN
        IF sentence = <<>>
            THEN /\ tts_audio_queue' = Append(tts_audio_queue, AUDIO_END)
                 /\ synth_log' = Append(synth_log,
                        [sentence |-> sentence, chunks |-> <<>>, skipped |-> TRUE])
            ELSE \E sentence_chunks \in TtsStreams :
                 /\ tts_audio_queue' =
                        tts_audio_queue \o <<AudioFile(sentence_chunks), AUDIO_END>>
                 /\ synth_log' = Append(synth_log,
                        [sentence |-> sentence, chunks |-> sentence_chunks,
                         skipped |-> FALSE])
    /\ tts' = TtsIdle
    /\ pc' = [pc EXCEPT !["tts"] = "get"]
    /\ UNCHANGED <<connected, sent, audio_input_queue, transcript_queue, llm_response_queue,
                   conversation_history, run_state, stt, llm, ingested,
                   stt_calls, llm_turns>>

ProcessTts == TtsGet \/ TtsSynthesize

\* ------------------------------------------------------------------ delivery

\* The event _send_tts_audio sends for a queue item that is not None.
Delivered(chunk) ==
    IF chunk = AUDIO_END THEN Event("audio_end", "", <<>>)
    ELSE Event("bytes", "", chunk.val)

SendTtsAudio ==
    /\ pc["send"] = "get"
    /\ tts_audio_queue # <<>>
    /\ LET chunk == Head(tts_audio_queue) IN
        /\ tts_audio_queue' = Tail(tts_audio_queue)
        /\ IF chunk = None
             THEN /\ pc' = [pc EXCEPT !["send"] = "done"]
                  /\ UNCHANGED sent
             ELSE Send("send", Delivered(chunk), "get")
    /\ UNCHANGED <<connected, audio_input_queue, transcript_queue, llm_response_queue,
                   conversation_history, run_state, stt, llm, tts, histories>>

\* ------------------------------------------------------------------ run

\* asyncio.gather without return_exceptions: it returns once all five tasks
\* have returned, and raises as soon as one of them raises; run catches that.
RunReturn ==
    /\ run_state = "gather"
    /\ \/ \A t \in Tasks : pc[t] = "done"
       \/ \E t \in Tasks : pc[t] = "crashed"
    /\ run_state' = "returned"
    /\ UNCHANGED <<connected, sent, queues, conversation_history, pc, stt, llm, tts,
                   histories>>

\* ------------------------------------------------------------------ specification

Next ==
    \/ ReceiveFromClient
    \/ ProcessStt
    \/ ProcessLlm
    \/ ProcessTts
    \/ SendTtsAudio
    \/ RunReturn

Spec == Init /\ [][Next]_vars

\* The event loop runs every task that can go on.
FairSpec ==
    /\ Spec
    /\ WF_vars(ProcessStt)
    /\ WF_vars(ProcessLlm)
    /\ WF_vars(ProcessTts)
    /\ WF_vars(SendTtsAudio)
    /\ WF_vars(RunReturn)

\* ------------------------------------------------------------------ properties

IsPrefix(s, t) == Len(s) <= Len(t) /\ s = SubSeq(t, 1, Len(s))

Finished(t) == pc[t] \in {"done", "crashed"}

RECURSIVE Runs(_, _)
\* The utterances in what ingest put on audio_input_queue: each maximal
\* non-empty run of audio frames, with the marker that closed it.
Runs(frames, run) ==
    IF frames = <<>> THEN <<>>
    ELSE IF Head(frames).kind = "audio"
        THEN Runs(Tail(frames), Append(run, Head(frames).data))
    ELSE (IF run = <<>> THEN <<>> ELSE <<[chunks |-> run, end |-> Head(frames).kind]>>)
            \o Runs(Tail(frames), <<>>)

Utterances == Runs(ingested, <<>>)

\* C1: once the ingest loop has exited, every stage task terminates: no stage
\* is left blocked on a queue get that nothing will ever satisfy.  (Only the
\* four stages put on the queues after the exit, so a state in which none of
\* them can step is final.)
C1_NoStageBlockedForever ==
    (Finished("recv") /\ ~ENABLED (ProcessStt \/ ProcessLlm \/ ProcessTts \/ SendTtsAudio))
        => \A t \in Stages : Finished(t)

\* C2: the buffer handed to the transcriber for the k-th utterance is the
\* concatenation of that utterance's frames, in arrival order, and of nothing
\* else.
C2_TranscriberGetsConcatenation ==
    LET utterances == Utterances IN
    \A k \in DOMAIN stt_calls :
        /\ k <= Len(utterances)
        /\ stt_calls[k].audio = Join(utterances[k].chunks)

C2_Witness ==
    \E k \in DOMAIN stt_calls :
        /\ Len(Utterances[k].chunks) >= 2
        /\ Utterances[k].end = "EndOfStream"

\* The positions of the boundary chunks of a stream, and the k-th of them.
Boundaries(chunks) ==
    {i \in DOMAIN chunks : chunks[i] \in {<<".">>, <<"!">>, <<"?">>}}
Boundary(chunks, k) ==
    IF k = 0 THEN 0
    ELSE CHOOSE i \in Boundaries(chunks) :
            Cardinality({j \in Boundaries(chunks) : j <= i}) = k
ExpectedSentences(chunks) ==
    [k \in 1..Cardinality(Boundaries(chunks)) |->
        Join(SubSeq(chunks, Boundary(chunks, k - 1) + 1, Boundary(chunks, k)))]

\* C3: the sentences a turn pushes to synthesis are, in order, the
\* concatenations of the chunks between consecutive boundary chunks (a
\* one-character chunk ".", "!" or "?", which ends its sentence); nothing else
\* is pushed, in particular not the chunks after the last boundary chunk.
C3_SentenceSegmentation ==
    \A k \in DOMAIN llm_turns :
        LET expected == ExpectedSentences(llm_turns[k].chunks) IN
        /\ IsPrefix(llm_turns[k].pushed, expected)
        /\ llm_turns[k].state = "exhausted" => llm_turns[k].pushed = expected

C3_Witness ==
    \E k \in DOMAIN llm_turns :
        /\ llm_turns[k].state = "exhausted"
        /\ llm_turns[k].chunks = << <<"b", "?">>, <<" ", "a">>, <<"!">>, <<".">> >>
        /\ llm_turns[k].pushed = << <<"b", "?", " ", "a", "!">>, <<".">> >>

RECURSIVE Contents(_)
Contents(items) ==
    IF items = <<>> THEN <<>>
    ELSE (IF Head(items) = None THEN <<>> ELSE <<Head(items).val>>) \o Contents(Tail(items))

RECURSIVE UserTexts(_)
UserTexts(history) ==
    IF history = <<>> THEN <<>>
    ELSE (IF Head(history).role = "user" THEN <<Head(history).content>> ELSE <<>>)
            \o UserTexts(Tail(history))

RECURSIVE TranscribedTexts(_)
\* The texts of the transcriptions that did not fail, in call order.
TranscribedTexts(calls) ==
    IF calls = <<>> THEN <<>>
    ELSE (IF Head(calls).transcript \in {None, Str(<<>>)} THEN <<>>
          ELSE <<Head(calls).transcript.val>>) \o TranscribedTexts(Tail(calls))

\* C4: a failed transcription adds no user message to the history and puts
\* nothing on the transcript queue: the user messages, the transcripts queued
\* and the one about to be queued are the texts of the transcriptions that
\* succeeded, in order.
C4_FailedTranscriptionLeavesNoTrace ==
    IsPrefix(UserTexts(conversation_history) \o Contents(transcript_queue)
                \o (IF pc["stt"] = "put_transcript" THEN <<stt.transcript.val>> ELSE <<>>),
             TranscribedTexts(stt_calls))

C4_Witness ==
    \E k \in DOMAIN stt_calls :
        /\ stt_calls[k].transcript \in {None, Str(<<>>)}
        /\ pc["stt"] = "get_first"
        /\ sent["stt"][Len(sent["stt"])] = Status("Transcription failed.")

\* A turn's stream ended after yielding something.
Answered(turn) == turn.state = "exhausted" /\ turn.chunks # <<>>

RECURSIVE ExpectedHistory(_)
\* Turn by turn: the user message, then the assistant message if the turn
\* was answered.
ExpectedHistory(turns) ==
    IF turns = <<>> THEN <<>>
    ELSE <<Message("user", Head(turns).transcript)>>
            \o (IF Answered(Head(turns))
                THEN <<Message("assistant", Join(Head(turns).chunks))>> ELSE <<>>)
            \o ExpectedHistory(Tail(turns))

\* The Generation Stage is between two turns.
LlmAtRest == pc["llm"] \in {"get", "done"}

\* C5 as claimed: after N completed turns the history holds 1 + 2N messages,
\* the system message and N (user, assistant) pairs.
C5_OnePairPerTurn ==
    LlmAtRest =>
        /\ Len(conversation_history) = 1 + 2 * Len(llm_turns)
        /\ \A k \in DOMAIN llm_turns :
            /\ conversation_history[2 * k].role = "user"
            /\ conversation_history[2 * k + 1].role = "assistant"

\* C5 as amended: the history is the system message followed, turn by turn,
\* by the user message and, only when the generator yielded something in
\* that turn, the assistant message: after N turns of which A were answered
\* it holds 1 + N + A messages.
C5_HistoryAfterTurns ==
    /\ conversation_history =
            <<Message("system", LLM_SYSTEM_PROMPT)>> \o ExpectedHistory(llm_turns)
    /\ LlmAtRest =>
            Len(conversation_history) =
                1 + Len(llm_turns) + Cardinality({k \in DOMAIN llm_turns : Answered(llm_turns[k])})

C5_Witness ==
    /\ LlmAtRest
    /\ Len(llm_turns) = 2
    /\ Answered(llm_turns[1])
    /\ ~Answered(llm_turns[2])
    /\ Len(conversation_history) = 4

RECURSIVE ExpectedAudio(_)
\* What Delivery is to send for the sentences synthesized: per sentence its
\* audio, the synthesizer's chunks in order, then one audio_end.
ExpectedAudio(log) ==
    IF log = <<>> THEN <<>>
    ELSE (IF Head(log).skipped THEN <<>>
          ELSE <<Event("bytes", "", Join(Head(log).chunks))>>)
            \o <<Event("audio_end", "", <<>>)>> \o ExpectedAudio(Tail(log))

C7_PartialUtteranceDiscarded ==
    LET utterances == Utterances IN
    \A k \in DOMAIN stt_calls :
        k <= Len(utterances) => utterances[k].end = "EndOfStream"

\* C8: as long as the receive loop has not exited, the Transcription Stage is
\* running.
C8_SttRunsWhileConnected ==
    pc["recv"] = "receive" => pc["stt"] # "done"

\* The markers the Transcription Stage has taken with nothing accumulated.
ConsumedByStt == Len(ingested) - Len(audio_input_queue)
EmptyEndOfStreams ==
    {i \in 1..ConsumedByStt :
        /\ ingested[i].kind = "EndOfStream"
        /\ (i = 1 \/ ingested[i - 1].kind # "audio")}
FailedStatuses ==
    {i \in DOMAIN sent["stt"] : sent["stt"][i] = Status("Transcription failed.")}

\* C9: for every end-of-utterance marker taken with an empty buffer the
\* Transcription Stage has sent a "Transcription failed." status.
C9_EmptyUtteranceReported ==
    connected => Cardinality(FailedStatuses) >= Cardinality(EmptyEndOfStreams)

Count(items, item) == Cardinality({i \in DOMAIN items : items[i] = item})
Taken(t) == IF pc[t] = "done" THEN 1 ELSE 0

\* C10: the ingest cleanup has run once when the receive loop has exited,
\* however it exited, and not before; it is what puts the one session-end
\* marker of the transcript, LLM-response and TTS-audio queues, and the
\* last marker of the audio input queue.
C10_CleanupOnce ==
    LET exited == IF Finished("recv") THEN 1 ELSE 0 IN
    /\ Count(transcript_queue, None) + Taken("llm") = exited
    /\ Count(llm_response_queue, None) + Taken("tts") = exited
    /\ Count(tts_audio_queue, None) + Taken("send") = exited
    /\ Cardinality({i \in DOMAIN ingested : ingested[i].kind = "SessionEnd"}) = exited
    /\ exited = 1 => ingested[Len(ingested)].kind = "SessionEnd"
    /\ Count(audio_input_queue, None) <=
            Cardinality({i \in DOMAIN ingested : ingested[i].kind # "audio"})

C10_Witness ==
    /\ pc["recv"] = "crashed"
    /\ \A t \in Stages : pc[t] = "done"
    /\ Len(llm_turns) >= 1

\* C11: AudioAgent.run has returned only when all five tasks have finished,
\* by returning or by raising.
C11_RunReturnsAfterAllTasks ==
    run_state = "returned" => \A t \in Tasks : Finished(t)

\* The calls of the three services that failed: a transcription that raised
\* (None), a chat stream that raised with deltas to come, a speech stream that
\* raised before its first chunk.
FailedTranscriptions == {k \in DOMAIN stt_calls : stt_calls[k].transcript = None}
FailedGenerations == {k \in DOMAIN llm_turns : llm_turns[k].failed}
FailedSyntheses ==
    {k \in DOMAIN synth_log : ~synth_log[k].skipped /\ synth_log[k].chunks = <<>>}
\* The status events a stage has sent that tell of a failure.
FailureStatuses(t) ==
    {i \in DOMAIN sent[t] :
        /\ sent[t][i].type = "status"
        /\ sent[t][i].message \notin {"Transcribing...", "Thinking...", "Streaming audio..."}}

\* C12: every failure of a service call - transcription, generation (also
\* after some chunks), synthesis - is answered by a status event telling the
\* client of it, and ends neither the stage task nor the session: while the
\* client is connected no stage has raised, and each stage has sent at least
\* as many failure statuses as calls of its service have failed.
C12_FailuresReported ==
    connected =>
        /\ \A t \in Stages : pc[t] # "crashed"
        /\ Cardinality(FailureStatuses("stt")) >= Cardinality(FailedTranscriptions)
        /\ Cardinality(FailureStatuses("llm")) >= Cardinality(FailedGenerations)
        /\ Cardinality(FailureStatuses("tts")) >= Cardinality(FailedSyntheses)

RECURSIVE Flatten(_)
Flatten(seqs) == IF seqs = <<>> THEN <<>> ELSE Head(seqs) \o Flatten(Tail(seqs))

\* The sentences the turns have put on llm_response_queue, in order.
PushedSentences == Flatten([k \in DOMAIN llm_turns |-> llm_turns[k].pushed])

\* Each utterance has had at most one transcription, each transcript at most
\* one generation, each sentence at most one synthesis: the k-th call is for
\* the k-th item.
C13_AtMostOnce ==
    /\ Len(stt_calls) <= Len(Utterances)
    /\ IsPrefix([k \in DOMAIN llm_turns |-> llm_turns[k].transcript],
                TranscribedTexts(stt_calls))
    /\ LET pushed == PushedSentences IN
        /\ Len(synth_log) <= Len(pushed)
        /\ \A k \in DOMAIN synth_log : synth_log[k].sentence = Strip(pushed[k])

\* The step in which a call fails leaves the stage, unless the websocket is
\* closed under it, waiting on its input queue, with nothing kept of the
\* failed item and nothing forwarded for a failed transcription.
C13_BackToWaiting ==
    /\ ( /\ Len(stt_calls') > Len(stt_calls)
         /\ ~TranscriptOk(stt_calls'[Len(stt_calls')].transcript)
         /\ pc'["stt"] # "crashed" )
            => (pc'["stt"] = "get_first" /\ stt' = SttIdle
                    /\ transcript_queue' = transcript_queue)
    /\ ( /\ llm_turns # <<>> /\ Len(llm_turns') = Len(llm_turns)
         /\ llm_turns'[Len(llm_turns)].failed /\ ~llm_turns[Len(llm_turns)].failed
         /\ pc'["llm"] # "crashed" )
            => (pc'["llm"] = "get" /\ llm' = LlmIdle)
    /\ ( /\ Len(synth_log') > Len(synth_log)
         /\ synth_log'[Len(synth_log')].chunks = <<>> )
            => (pc'["tts"] = "get" /\ tts' = TtsIdle)

\* C13: no retry, and the pipeline keeps going: a service is called at most
\* once per utterance, transcript or sentence, and after a failed call the
\* stage is back at the get of its input queue.
C13_NoRetryKeepsGoing == []C13_AtMostOnce /\ [][C13_BackToWaiting]_vars

\* A failed transcription, and the next utterance taken through the
\* transcriber, the generator, the synthesizer and the delivery.
C13_Witness ==
    /\ connected
    /\ Len(stt_calls) = 2
    /\ ~TranscriptOk(stt_calls[1].transcript)
    /\ TranscriptOk(stt_calls[2].transcript)
    /\ Len(llm_turns) = 1 /\ llm_turns[1].transcript = stt_calls[2].transcript.val
    /\ Len(synth_log) >= 1
    /\ Len(sent["send"]) >= 2

\* The history starts with the one system message, and every assistant
\* message stands right after the user message of the turn it answers.
C14_WellFormed ==
    /\ conversation_history # <<>>
    /\ conversation_history[1] = Message("system", LLM_SYSTEM_PROMPT)
    /\ \A i \in DOMAIN conversation_history :
        /\ conversation_history[i].role \in {"system", "user", "assistant"}
        /\ conversation_history[i].role = "system" => i = 1
        /\ conversation_history[i].role = "assistant" =>
            /\ i > 1
            /\ conversation_history[i - 1].role = "user"
            /\ \E k \in DOMAIN llm_turns :
                /\ conversation_history[i - 1].content = llm_turns[k].transcript
                /\ conversation_history[i].content = Join(llm_turns[k].chunks)

\* C14: in every reachable state the history begins with exactly one system
\* message and has none elsewhere, every assistant message is immediately
\* preceded by the user message it replies to, and every step leaves the
\* history as it is or adds to its end.
C14_HistoryAppendOnly ==
    []C14_WellFormed /\ [][IsPrefix(conversation_history, conversation_history')]_vars

C14_Witness ==
    /\ Len(conversation_history) >= 4
    /\ conversation_history[2].role = "user"
    /\ conversation_history[3].role = "assistant"
    /\ conversation_history[3].content = <<"b", "?", " ", "a", "!", ".">>
    /\ conversation_history[4].role = "user"

\* No data item stands behind a session-end marker in the queue.
NothingBehindMarker(queue) ==
    \A i, j \in DOMAIN queue : (i < j /\ queue[i] = None) => queue[j] = None

\* C15: in the transcript, LLM-response and TTS-audio queues no data item is
\* ever enqueued after the session-end marker, so a stage that has returned
\* on its marker has left no item in its input queue.
C15_NoDataBehindMarker ==
    /\ NothingBehindMarker(transcript_queue)
    /\ NothingBehindMarker(llm_response_queue)
    /\ NothingBehindMarker(tts_audio_queue)
    /\ pc["llm"] = "done" => Contents(transcript_queue) = <<>>
    /\ pc["tts"] = "done" => Contents(llm_response_queue) = <<>>
    /\ pc["send"] = "done" => Contents(tts_audio_queue) = <<>>

\* A step that puts on `queue` is a step of `producer`, one that gets from it
\* a step of `consumer`.
OnlyBy(old, new, producer, consumer) ==
    /\ Len(new) > Len(old) => producer
    /\ Len(new) < Len(old) => consumer

\* C16: each of the four queues has one task that puts on it and one task
\* that gets from it: ingest and Transcription for the audio input queue,
\* Transcription and Generation for the transcript queue, Generation and
\* Synthesis for the LLM-response queue, Synthesis and Delivery for the
\* TTS-audio queue.
C16_OneProducerOneConsumer ==
    [][ /\ OnlyBy(audio_input_queue, audio_input_queue', ReceiveFromClient, ProcessStt)
        /\ OnlyBy(transcript_queue, transcript_queue', ProcessStt, ProcessLlm)
        /\ OnlyBy(llm_response_queue, llm_response_queue', ProcessLlm, ProcessTts)
        /\ OnlyBy(tts_audio_queue, tts_audio_queue', ProcessTts, SendTtsAudio) ]_vars

RECURSIVE AssistantTexts(_)
AssistantTexts(history) ==
    IF history = <<>> THEN <<>>
    ELSE (IF Head(history).role = "assistant" THEN <<Head(history).content>> ELSE <<>>)
            \o AssistantTexts(Tail(history))

RECURSIVE AnswerTexts(_)
\* The answers of the turns whose stream has ended after at least one chunk:
\* all chunks of the turn, concatenated in stream order.
AnswerTexts(turns) ==
    IF turns = <<>> THEN <<>>
    ELSE (IF Head(turns).state = "exhausted" /\ Head(turns).chunks # <<>>
          THEN <<Join(Head(turns).chunks)>> ELSE <<>>) \o AnswerTexts(Tail(turns))

\* The turns whose stream has ended without a chunk.
Unanswered == {k \in DOMAIN llm_turns :
                    llm_turns[k].state = "exhausted" /\ llm_turns[k].chunks = <<>>}
NoResponseStatuses ==
    {i \in DOMAIN sent["llm"] : sent["llm"][i] = Status("AI failed to respond.")}

\* C17: once the stream of a turn is exhausted: with at least one chunk, one
\* assistant message holding all the chunks in stream order is appended and
\* no "AI failed to respond." status is sent; with none, that status is sent
\* (unless the websocket, closed by then, raises on it) and no assistant
\* message is appended.  Before that, nothing of the turn is appended.
C17_AfterStreamExhausted ==
    /\ AssistantTexts(conversation_history) = AnswerTexts(llm_turns)
    /\ Cardinality(NoResponseStatuses) =
            Cardinality(Unanswered)
                - (IF pc["llm"] = "crashed" /\ Len(llm_turns) \in Unanswered THEN 1 ELSE 0)

C17_Witness ==
    /\ Len(llm_turns) = 2
    /\ llm_turns[1].state = "exhausted"
    /\ llm_turns[1].chunks = << <<"b", "?">>, <<" ", "a">>, <<"!">>, <<".">> >>
    /\ 2 \in Unanswered
    /\ sent["llm"] # <<>>
    /\ sent["llm"][Len(sent["llm"])] = Status("AI failed to respond.")
    /\ AssistantTexts(conversation_history) = << <<"b", "?", " ", "a", "!", ".">> >>

\* The events of one turn, as the client is to see them.
ChunkEvents(chunks) ==
    [i \in DOMAIN chunks |-> [type |-> "llm_chunk", message |-> "", data |-> chunks[i]]]
TurnEvents(turn) ==
    << [type |-> "status", message |-> "Thinking...", data |-> <<>>],
       [type |-> "llm_response_start", message |-> "", data |-> <<>>] >>
        \o ChunkEvents(turn.chunks)
        \o (IF turn.state = "exhausted" /\ turn.chunks = <<>>
            THEN <<[type |-> "status", message |-> "AI failed to respond.", data |-> <<>>]>>
            ELSE <<>>)
GenerationEvents == Flatten([k \in DOMAIN llm_turns |-> TurnEvents(llm_turns[k])])

\* The llm_chunk events sent that close a sentence.
BoundaryEvents ==
    {i \in DOMAIN sent["llm"] :
        /\ sent["llm"][i].type = "llm_chunk"
        /\ sent["llm"][i].data \in {<<".">>, <<"!">>, <<"?">>}}

\* C18: what the Generation Stage has sent is, turn after turn, the
\* "Thinking..." status, llm_response_start, then one llm_chunk event per
\* chunk streamed, with that chunk, in stream order; a send that raises on a
\* closed websocket cuts the sequence short.  And a sentence is put on the
\* synthesis queue only when the llm_chunk event of the chunk closing it has
\* been sent.
C18_GenerationEventOrder ==
    LET expected == GenerationEvents IN
    /\ IsPrefix(sent["llm"], expected)
    /\ pc["llm"] \in {"get", "pull", "done"} => sent["llm"] = expected
    /\ pc["llm"] = "start" =>
            Append(sent["llm"], [type |-> "llm_response_start", message |-> "", data |-> <<>>])
                = expected
    /\ Len(PushedSentences) <= Cardinality(BoundaryEvents)

C18_Witness ==
    /\ Len(llm_turns) = 1
    /\ llm_turns[1].pushed = << <<"b", "?", " ", "a", "!">>, <<".">> >>
    /\ Len(sent["llm"]) = 6
    /\ sent["llm"][1].message = "Thinking..."
    /\ sent["llm"][2].type = "llm_response_start"
    /\ [i \in 1..4 |-> sent["llm"][i + 2].data] = << <<"b", "?">>, <<" ", "a">>, <<"!">>, <<".">> >>

\* C19: only the Generation Stage task changes the conversation history:
\* every step of the ingest, Transcription, Synthesis and Delivery tasks (and
\* of run) leaves it as it is, and a step that changes it is a step of
\* _process_llm.
C19_OnlyGenerationWritesHistory ==
    [][ /\ (ReceiveFromClient \/ ProcessStt \/ ProcessTts \/ SendTtsAudio \/ RunReturn)
                => conversation_history' = conversation_history
        /\ conversation_history' # conversation_history => ProcessLlm ]_vars

\* Every task has worked, and the history has grown.
C19_Witness ==
    /\ Len(conversation_history) = 3
    /\ Len(ingested) >= 3
    /\ Len(stt_calls) = 2
    /\ Len(synth_log) = 2
    /\ Len(sent["send"]) = 4
    /\ run_state = "returned"

RECURSIVE TranscriptEvents(_)
\* The texts of the transcript events in what a task has sent, in order.
TranscriptEvents(events) ==
    IF events = <<>> THEN <<>>
    ELSE (IF Head(events).type = "transcript" THEN <<Head(events).data>> ELSE <<>>)
            \o TranscriptEvents(Tail(events))

CountType(events, type) == Cardinality({i \in DOMAIN events : events[i].type = type})

\* C20: the events of a turn are sent in the pipeline's order though three
\* tasks write to the client.  The "Transcribing..." status comes right
\* before the transcript event; the k-th turn, with its "Thinking..." and
\* llm_response_start, starts only when the k-th transcript event has been
\* sent, and is the turn of that transcript; the transcripts are taken in the
\* order they were put, so the k-th transcript put gives the k-th user
\* message; and no more audio frames or audio_end events have been sent than
\* llm_chunk events closing a sentence.
C20_CausalOrder ==
    LET transcripts == TranscriptEvents(sent["stt"]) IN
    /\ \A i \in DOMAIN sent["stt"] :
            sent["stt"][i].type = "transcript" =>
                (i > 1 /\ sent["stt"][i - 1] = Status("Transcribing..."))
    /\ IsPrefix([k \in DOMAIN llm_turns |-> llm_turns[k].transcript], transcripts)
    /\ UserTexts(conversation_history) \o Contents(transcript_queue)
            \o (IF pc["stt"] = "put_transcript" THEN <<stt.transcript.val>> ELSE <<>>)
        = transcripts
    /\ CountType(sent["send"], "bytes") <= Cardinality(BoundaryEvents)
    /\ CountType(sent["send"], "audio_end") <= Cardinality(BoundaryEvents)

C20_Witness ==
    /\ Len(TranscriptEvents(sent["stt"])) = 2
    /\ UserTexts(conversation_history) = TranscriptEvents(sent["stt"])
    /\ CountType(sent["send"], "audio_end") = 3
    /\ Cardinality(BoundaryEvents) = 3

====
